---- MODULE Spec2Model ----
(***************************************************************************)
(* Model of the WanModelMoe video diffusion transformer                    *)
(* (src/diffsynth/models/wan_video_dit_moe.py): the multi-scale token      *)
(* assembler, the degenerate router, the MoE combiner and the top-level    *)
(* forward pass.  Tensors are modelled by their shapes and by the          *)
(* provenance of every row along the sequence axis (which segment, frame,  *)
(* row and column a token, a RoPE-frequency row or a camera row comes      *)
(* from); numeric values are modelled only where a claim is about them     *)
(* (the MoE combiner's weighted sum).                                      *)
(***************************************************************************)
EXTENDS Integers, Sequences, FiniteSets, TLC

VARIABLES
    pc,                 \* position of the running call
    err,                \* "none", or the Python exception that ended the call
    args,               \* arguments of the process_input_hidden_states call
    hidden_states,      \* token sequence (one entry per sequence position)
    rope_freqs,         \* per batch element: the RoPE-frequency rows
    grid_size,          \* <<f, h, w>> returned by patchify
    combined,           \* combined_modality_embeddings: [present, rows]
    start_indice,       \* clean_latent_indices[0][0], or 0
    use_moe,            \* WanModelMoe.use_moe (and every block's)
    moe_config,         \* [present, num_experts, top_k]: the blocks' MoE, if any
    processors,         \* labels whose <label>_processor is attached to the model
    trained,            \* cam_encoder and projector attached to every block
    modality_inputs,    \* the call's modality_inputs: <<[label, frames], ...>>
    processed_inputs,   \* keys of the dict process_modality_inputs returned
    processed_modality_inputs,  \* [present, keys]: the dict the assembler returns
    original_context_length,
    router,             \* the decision computed by the forward pass, if any
    router_calls,       \* calls of compute_router_decisions in this pass
    block_log,          \* per block run: the branch taken and the decision received
    expert_stats_buffer,\* per block: [present, recs]
    output,             \* extents of the returned tensor and the returned loss
    fn_in,              \* arguments of a direct call of the router or the combiner;
                        \* in a forward call, the cam_emb the caller passed
    fn_out              \* what that call returned

asmVars == <<args, hidden_states, rope_freqs, grid_size, combined, start_indice>>
cfgVars == <<use_moe, moe_config, processors, trained>>
fwdVars == <<modality_inputs, processed_inputs, processed_modality_inputs,
             original_context_length, router, router_calls, block_log,
             expert_stats_buffer, output>>
fnVars == <<fn_in, fn_out>>
vars == <<pc, err, asmVars, cfgVars, fwdVars, fnVars>>

-----------------------------------------------------------------------------
(* Bounds of the model *)

MaxFrames == 2          \* most frames of the primary and the 1x clean latent
MaxStart == 1           \* largest first frame index of an index row
NumLayers == 2          \* num_layers: blocks of the model
DatasetLen == 3         \* items of the video dataset
MaxHalfDim == 64        \* head dimensions 2, 4, ..., 2 * MaxHalfDim
MaxTries == 3           \* failed loads followed in one __getitem__ call

-----------------------------------------------------------------------------
(* Small helpers *)

Min(a, b) == IF a < b THEN a ELSE b
Max(a, b) == IF a < b THEN b ELSE a

RECURSIVE SeqMin(_)
SeqMin(s) == IF Len(s) = 1 THEN s[1] ELSE Min(s[1], SeqMin(Tail(s)))

RECURSIVE SeqMax(_)
SeqMax(s) == IF Len(s) = 1 THEN s[1] ELSE Max(s[1], SeqMax(Tail(s)))

RECURSIVE Flatten(_)
Flatten(rows) == IF rows = <<>> THEN <<>> ELSE Head(rows) \o Flatten(Tail(rows))

\* x[x >= 0] on a flattened tensor: the entries >= 0, in order
RECURSIVE NonNegative(_)
NonNegative(s) ==
    IF s = <<>> THEN <<>>
    ELSE IF Head(s) >= 0 THEN <<Head(s)>> \o NonNegative(Tail(s))
    ELSE NonNegative(Tail(s))

\* Python's seq[a:b] on a sequence of n entries: the 0-based positions it keeps
PySliceBound(n, a) == IF a < 0 THEN Max(a + n, 0) ELSE Min(a, n)
PySlice(n, a, b) ==
    LET lo == PySliceBound(n, a)
        hi == PySliceBound(n, b)
    IN  [i \in 1..Max(hi - lo, 0) |-> lo + i - 1]

\* Python's seq[i] on n entries: the 0-based position read, -1 when IndexError
PyIndex(n, i) == IF i >= 0 /\ i < n THEN i ELSE IF i < 0 /\ i >= -n THEN i + n ELSE -1

-----------------------------------------------------------------------------
(* Tensors along the sequence axis *)

\* rearrange 'b c f h w -> b (f h w) c': one token per (frame, row, column)
TokenBlock(seg, f, h, w) ==
    [i \in 1..(f * h * w) |->
        [seg |-> seg, f |-> (i - 1) \div (h * w),
         r |-> ((i - 1) % (h * w)) \div w, c |-> (i - 1) % w]]

\* the spatial_freqs blocks of one batch element: for each time index of
\* tseq, h*w rows holding (freqs[0][t], freqs[1][r], freqs[2][c])
RopeBlock(seg, tseq, h, w) ==
    [i \in 1..(Len(tseq) * h * w) |->
        [seg |-> seg, t |-> tseq[(i - 1) \div (h * w) + 1],
         r |-> ((i - 1) % (h * w)) \div w, c |-> (i - 1) % w]]

\* camera.unsqueeze(2).unsqueeze(3).repeat(1, 1, h, w, 1) then
\* 'b f h w d -> b (f h w) d'; camseq holds, per frame, the position read in
\* cam_emb, or -1 for an all-zero row
CamBlock(seg, camseq, h, w) ==
    [i \in 1..(Len(camseq) * h * w) |->
        [seg |-> seg, f |-> (i - 1) \div (h * w),
         r |-> ((i - 1) % (h * w)) \div w, c |-> (i - 1) % w,
         cam |-> camseq[(i - 1) \div (h * w) + 1]]]

-----------------------------------------------------------------------------
(* Call arguments.  An absent tensor is the empty shape <<>>; an index       *)
(* tensor is [present, rows] with one row per batch element.                 *)

Absent == [present |-> FALSE, rows |-> <<>>]
Idx(rows) == [present |-> TRUE, rows |-> rows]
NoCam == [present |-> FALSE, frames |-> 0, src |-> "none"]
Cam(n, src) == [present |-> TRUE, frames |-> n, src |-> src]

\* the index row <<s, s+g, ..., s+(n-1)g>>
Row(s, n, g) == [i \in 1..n |-> s + (i - 1) * g]
Rep(B, row) == [b \in 1..B |-> row]

-----------------------------------------------------------------------------
(* Token Assembler: process_input_hidden_states, stage by stage *)

\* output extents of a Conv3d with kernel = stride = k and no padding
ConvGrid(shape, k) == <<shape[1] \div k[1], shape[2] \div k[2], shape[3] \div k[3]>>

\* patchify: patch_embedding is Conv3d(kernel_size = stride = patch_size)
patchify(latents, patch_size) == ConvGrid(latents, patch_size)

\* pad_for_3d_conv on a [B, C, T, H, W] tensor: replicate-pad at the end
pad_for_3d_conv(shape, k) ==
    [d \in 1..3 |-> shape[d] + ((k[d] - (shape[d] % k[d])) % k[d])]

\* CleanXEmbedder: the kernel of the convolution each scale tag selects
Kernel1x == <<1, 2, 2>>
Kernel2x == <<2, 4, 4>>
Kernel4x == <<4, 8, 8>>

\* latent_indices, or its default arange(0, f) expanded over the batch
LatentIndices(a, f) ==
    IF a.latent_indices.present THEN a.latent_indices.rows
    ELSE Rep(a.B, Row(0, f, 1))

\* target_camera = cam_emb[:, target_start:target_end, :]
TargetCamera(a, row, start) ==
    PySlice(a.cam_emb.frames, SeqMin(row) - start, SeqMax(row) + 1 - start)

\* lines 682-726: patchify, the primary RoPE rows, start_indice, the primary
\* camera rows
AsmMain(a) ==
    LET g == patchify(a.latents, a.patch_size)
        li == LatentIndices(a, g[1])
        start == IF a.clean_latent_indices.present
                 THEN a.clean_latent_indices.rows[1][1] ELSE 0
    IN  [hidden |-> TokenBlock("main", g[1], g[2], g[3]),
         rope |-> [b \in 1..a.B |-> RopeBlock("main", li[b], g[2], g[3])],
         grid |-> g,
         start |-> start,
         cam |-> IF a.cam_emb.present
                 THEN [present |-> TRUE,
                       rows |-> CamBlock("main", TargetCamera(a, li[1], start), g[2], g[3])]
                 ELSE [present |-> FALSE, rows |-> <<>>],
         err |-> "none"]

\* clean_camera: cam_emb[:, clean_start:clean_start+1, :] or
\* cam_emb[:, [clean_start, clean_end], :]; -1 marks an index out of range
CleanCamera(a, row, start) ==
    LET cs == SeqMin(row) - start
        ce == SeqMax(row) + 1 - start
    IN  IF cs = ce THEN PySlice(a.cam_emb.frames, cs, cs + 1)
        ELSE <<PyIndex(a.cam_emb.frames, cs), PyIndex(a.cam_emb.frames, ce)>>

\* lines 729-773: the 1x clean latents, prepended
AsmClean1x(a, st) ==
    IF a.clean_latents # <<>> /\ a.clean_latent_indices.present
    THEN LET cg == ConvGrid(a.clean_latents, Kernel1x)
             h == st.grid[2]
             w == st.grid[3]
             ci == a.clean_latent_indices.rows
             cc == CleanCamera(a, ci[1], st.start)
         IN  IF st.cam.present /\ \E i \in 1..Len(cc) : cc[i] = -1
             THEN [st EXCEPT !.err = "IndexError"]
             ELSE [st EXCEPT
                    !.hidden = TokenBlock("1x", cg[1], cg[2], cg[3]) \o st.hidden,
                    !.rope = [b \in 1..a.B |-> RopeBlock("1x", ci[b], h, w) \o st.rope[b]],
                    !.cam = IF st.cam.present
                            THEN [present |-> TRUE,
                                  rows |-> CamBlock("1x", cc, h, w) \o st.cam.rows]
                            ELSE st.cam]
    ELSE st

\* a frame beyond the valid indices reading the frequency of time 0
ScaleTimeIndexZero(valid, frame_idx) ==
    IF frame_idx < Len(valid) THEN valid[frame_idx + 1] ELSE 0

\* the time index of the frame_idx-th embedded frame of a 2x/4x scale
ScaleTimeIndex(valid, frame_idx) ==
    IF frame_idx < Len(valid) THEN valid[frame_idx + 1] ELSE valid[Len(valid)]

\* clean_2x_camera / clean_4x_camera: zeros, filled per valid frame
ScaleCamera(a, valid, f, start) ==
    [j \in 1..f |->
        IF j - 1 < Min(f, Len(valid))
           /\ 0 <= valid[j] - start /\ valid[j] - start < a.cam_emb.frames
        THEN valid[j] - start ELSE -1]

\* one coarse scale (the 2x and the 4x block have the same shape): filter the
\* valid indices, pad, embed, build RoPE and camera rows, prepend
CleanScale(a, st, seg, latents, idx, kernel) ==
    IF latents # <<>> /\ idx.present /\ Len(Flatten(idx.rows)) > 0
    THEN LET valid == NonNegative(Flatten(idx.rows))
         IN  IF Len(valid) > 0
             THEN LET sg == ConvGrid(pad_for_3d_conv(latents, kernel), kernel)
                      tseq == [j \in 1..sg[1] |-> ScaleTimeIndex(valid, j - 1)]
                  IN  [st EXCEPT
                        !.hidden = TokenBlock(seg, sg[1], sg[2], sg[3]) \o st.hidden,
                        !.rope = [b \in 1..a.B |->
                                    RopeBlock(seg, tseq, sg[2], sg[3]) \o st.rope[b]],
                        !.cam = IF st.cam.present
                                THEN [present |-> TRUE,
                                      rows |-> CamBlock(seg, ScaleCamera(a, valid, sg[1], st.start),
                                                        sg[2], sg[3]) \o st.cam.rows]
                                ELSE st.cam]
             ELSE st
    ELSE st

\* lines 776-834
AsmClean2x(a, st) ==
    CleanScale(a, st, "2x", a.clean_latents_2x, a.clean_latent_2x_indices, Kernel2x)

\* the 4x tokens concatenated behind the sequence instead of in front
AsmClean4xBehind(a, st) ==
    LET s == CleanScale(a, st, "4x", a.clean_latents_4x, a.clean_latent_4x_indices, Kernel4x)
    IN  [s EXCEPT !.hidden =
            st.hidden \o SubSeq(s.hidden, 1, Len(s.hidden) - Len(st.hidden))]

\* lines 837-895
AsmClean4x(a, st) ==
    CleanScale(a, st, "4x", a.clean_latents_4x, a.clean_latent_4x_indices, Kernel4x)

\* the whole call, for callers that run it in one step
process_input_hidden_states(a) ==
    LET s1 == AsmClean1x(a, AsmMain(a))
    IN  IF s1.err # "none" THEN s1 ELSE AsmClean4x(a, AsmClean2x(a, s1))


-----------------------------------------------------------------------------
(* Arguments the assembler is exercised with.  The family varies one        *)
(* segment at a time over its rich menu while the other segments range      *)
(* over a present/absent menu, and adds batches of two elements.            *)

PatchSizes == {<<1, 2, 2>>, <<1, 2, 1>>}
LatentShapes == {<<T, 2, 2>> : T \in 1..MaxFrames}
IndexRows == {Row(s, n, g) : s \in 0..MaxStart, n \in 1..MaxFrames, g \in 1..2}
\* rows of a 2x/4x index tensor: -1 marks an unused entry
ScaleRows ==
    {<<-1>>} \cup UNION {{<<s>>, <<s, -1>>, <<-1, s>>, <<s, s + 1>>} : s \in 0..MaxStart}
Cams == {NoCam, Cam(2, "arg"), Cam(4, "arg")}

Clean(lat, idx) == [lat |-> lat, idx |-> idx]
NoClean == Clean(<<>>, Absent)

MainBasic(B) == {[patch |-> <<1, 2, 2>>, lat |-> l, idx |-> Absent] : l \in LatentShapes}
MainRich(B) ==
    {[patch |-> p, lat |-> l, idx |-> i] :
        p \in PatchSizes, l \in LatentShapes,
        i \in {Absent} \cup {Idx(Rep(B, r)) : r \in IndexRows}}

Basic1x(B) == {NoClean, Clean(<<2, 2, 2>>, Idx(Rep(B, <<0, 1>>)))}
Rich1x(B) ==
    {Clean(l, i) :
        l \in LatentShapes \cup {<<1, 4, 2>>, <<1, 3, 2>>},
        i \in {Absent} \cup {Idx(Rep(B, r)) : r \in IndexRows}}
    \cup {Clean(<<>>, Idx(Rep(B, r))) : r \in IndexRows}

Basic2x(B) == {NoClean, Clean(<<2, 4, 4>>, Idx(Rep(B, <<0>>)))}
Rich2x(B) ==
    {Clean(l, i) :
        l \in {<<1, 2, 2>>, <<3, 2, 2>>, <<2, 5, 2>>},
        i \in {Absent, Idx(Rep(B, <<>>))} \cup {Idx(Rep(B, r)) : r \in ScaleRows}}
    \cup {Clean(<<>>, Idx(Rep(B, <<0>>)))}

Basic4x(B) == {NoClean, Clean(<<4, 8, 8>>, Idx(Rep(B, <<0>>)))}
Rich4x(B) ==
    {Clean(l, i) :
        l \in {<<1, 2, 2>>, <<5, 2, 2>>, <<4, 9, 2>>},
        i \in {Absent, Idx(Rep(B, <<>>))} \cup {Idx(Rep(B, r)) : r \in ScaleRows}}
    \cup {Clean(<<>>, Idx(Rep(B, <<0>>)))}

\* two batch elements whose 2x/4x index rows differ
Pairs2x ==
    {Clean(<<3, 2, 2>>, Idx(<<r1, r2>>)) :
        r1 \in {r \in ScaleRows : Len(r) = 2}, r2 \in {r \in ScaleRows : Len(r) = 2}}

MkArgs(B, m, c1, c2, c4, cam) ==
    [B |-> B, patch_size |-> m.patch, latents |-> m.lat, latent_indices |-> m.idx,
     clean_latents |-> c1.lat, clean_latent_indices |-> c1.idx,
     clean_latents_2x |-> c2.lat, clean_latent_2x_indices |-> c2.idx,
     clean_latents_4x |-> c4.lat, clean_latent_4x_indices |-> c4.idx,
     cam_emb |-> cam]

Family(B, M, C1, C2, C4) ==
    {MkArgs(B, m, c1, c2, c4, cam) :
        m \in M, c1 \in C1, c2 \in C2, c4 \in C4, cam \in Cams}

AsmInputs ==
    Family(1, MainRich(1), Basic1x(1), Basic2x(1), Basic4x(1))
    \cup Family(1, MainBasic(1), Rich1x(1), Basic2x(1), Basic4x(1))
    \cup Family(1, MainBasic(1), Basic1x(1), Rich2x(1), Basic4x(1))
    \cup Family(1, MainBasic(1), Basic1x(1), Basic2x(1), Rich4x(1))
    \cup Family(2, MainBasic(2), Basic1x(2), Pairs2x, Basic4x(2))

-----------------------------------------------------------------------------
(* Model configuration and per-pass state outside the assembler *)

NoConfig == [present |-> FALSE, num_experts |-> 0, top_k |-> 0]
NoRouter == [present |-> FALSE, weights |-> <<>>, indices |-> <<>>, loss |-> 0]
NoDict == [present |-> FALSE, keys |-> <<>>]
NoOutput == [present |-> FALSE, shape |-> <<>>, loss |-> 0]
NoBuffer == [present |-> FALSE, recs |-> <<>>]

\* a constructed model with no MoE, before any forward call
IdleModel ==
    /\ use_moe = FALSE
    /\ moe_config = NoConfig
    /\ processors = {}
    /\ trained = FALSE
    /\ modality_inputs = <<>>
    /\ processed_inputs = <<>>
    /\ processed_modality_inputs = NoDict
    /\ original_context_length = 0
    /\ router = NoRouter
    /\ router_calls = 0
    /\ block_log = <<>>
    /\ expert_stats_buffer = [i \in 1..NumLayers |-> NoBuffer]
    /\ output = NoOutput

NoCall ==
    /\ fn_in = <<>>
    /\ fn_out = <<>>

-----------------------------------------------------------------------------
(* The assembler called on its own, one stage per step *)

AsmState == [hidden |-> hidden_states, rope |-> rope_freqs, grid |-> grid_size,
             start |-> start_indice, cam |-> combined, err |-> err]

SetAsmState(st, next) ==
    /\ hidden_states' = st.hidden
    /\ rope_freqs' = st.rope
    /\ grid_size' = st.grid
    /\ start_indice' = st.start
    /\ combined' = st.cam
    /\ err' = st.err
    /\ pc' = IF st.err = "none" THEN next ELSE "error"

InitAsm ==
    /\ args \in AsmInputs
    /\ IdleModel
    /\ NoCall
    /\ pc = "asm_main"
    /\ err = "none"
    /\ hidden_states = <<>>
    /\ rope_freqs = <<>>
    /\ grid_size = <<0, 0, 0>>
    /\ combined = [present |-> FALSE, rows |-> <<>>]
    /\ start_indice = 0

StepMain ==
    /\ pc = "asm_main"
    /\ SetAsmState(AsmMain(args), "asm_1x")
    /\ UNCHANGED <<args, cfgVars, fwdVars, fnVars>>

StepClean1x ==
    /\ pc = "asm_1x"
    /\ SetAsmState(AsmClean1x(args, AsmState), "asm_2x")
    /\ UNCHANGED <<args, cfgVars, fwdVars, fnVars>>

StepClean2x ==
    /\ pc = "asm_2x"
    /\ SetAsmState(AsmClean2x(args, AsmState), "asm_4x")
    /\ UNCHANGED <<args, cfgVars, fwdVars, fnVars>>

StepClean4x ==
    /\ pc = "asm_4x"
    /\ SetAsmState(AsmClean4x(args, AsmState), "asm_done")
    /\ UNCHANGED <<args, cfgVars, fwdVars, fnVars>>

NextAsm == StepMain \/ StepClean1x \/ StepClean2x \/ StepClean4x

SpecAsm == InitAsm /\ [][NextAsm]_vars


-----------------------------------------------------------------------------
(* Router Decision Policy *)

\* modality_to_expert.get(label, 0): the dict of WanModelMoe.__init__ (the
\* same dict is built by MultiModalMoE.__init__)
modality_to_expert(label) ==
    CASE label = "sekai" -> 0
      [] label = "nuscenes" -> 1
      [] label = "openx" -> 2
      [] label = "unknown" -> 0
      [] OTHER -> 0

\* WanModelMoe.top_k, set in __init__ whatever moe_config says
RouterTopK == 1

\* a tensor [batch, seq, slots] filled with v
Full(batch_size, seq_len, top_k, v) ==
    [b \in 1..batch_size |-> [q \in 1..seq_len |-> [k \in 1..top_k |-> v]]]

\* a decision whose weights follow the input tensor
RouterReadingInput(x, modality_type) ==
    [present |-> TRUE,
     indices |-> Full(Len(x), Len(x[1]), RouterTopK, modality_to_expert(modality_type)),
     weights |-> [b \in 1..Len(x) |-> [q \in 1..Len(x[1]) |-> [k \in 1..RouterTopK |-> x[b][q]]]],
     loss |-> 0]

\* compute_router_decisions(combined_modality_input, modality_type); x[b][q]
\* is the embedding of token q of batch element b
compute_router_decisions(x, modality_type) ==
    LET batch_size == Len(x)
        seq_len == Len(x[1])
        top_k == RouterTopK
        target_expert_id == modality_to_expert(modality_type)
    IN  [present |-> TRUE,
         indices |-> Full(batch_size, seq_len, top_k, target_expert_id),
         weights |-> Full(batch_size, seq_len, top_k, 1),
         loss |-> 0]

-----------------------------------------------------------------------------
(* MoE Combiner: MultiModalMoE *)

\* MultiModalMoE.__init__ defaults
DefaultNumExperts == 4
DefaultTopK == 2

\* expert e is one nn.Linear; its learned weight and bias, distinct per expert
ExpertWeight(e) == e + 2
ExpertBias(e) == 3 * e + 1
ExpertOutput(e, v) == ExpertWeight(e) * v + ExpertBias(e)

\* slots of a [batch, seq, slots] tensor
Slots(t) == Len(t[1][1])

\* collect_expert_statistics: (top_k_indices == expert_id).sum() per expert
SelectionCount(num_experts, top_k_indices) ==
    [e \in 0..(num_experts - 1) |->
        Cardinality({<<b, q, k>> \in
            (1..Len(top_k_indices)) \X (1..Len(top_k_indices[1])) \X (1..Slots(top_k_indices)) :
            top_k_indices[b][q][k] = e})]

collect_expert_statistics(m, top_k_indices, modality_type, target_expert_id) ==
    [modality_type |-> modality_type,
     target_expert_id |-> target_expert_id,
     expert_selection_count |-> SelectionCount(m.num_experts, top_k_indices),
     num_experts |-> m.num_experts,
     top_k |-> m.top_k]

\* the exception MultiModalMoE.forward ends with, in the order the code
\* reaches them: the statistics index the target expert, the loop reads slot
\* k of both tensors, gather reads the selected expert
MoEError(m, expert_weights, top_k_indices, modality_type) ==
    IF modality_to_expert(modality_type) >= m.num_experts THEN "IndexError"
    ELSE IF m.top_k > Slots(top_k_indices) \/ m.top_k > Slots(expert_weights)
         THEN "IndexError"
    ELSE IF \E b \in 1..Len(top_k_indices) : \E q \in 1..Len(top_k_indices[1]) :
              \E k \in 1..m.top_k : top_k_indices[b][q][k] >= m.num_experts
         THEN "RuntimeError"
    ELSE "none"

\* the slots accumulated without their weight
RECURSIVE AccumulateUnweighted(_, _, _, _)
AccumulateUnweighted(k, v, w, idx) ==
    IF k = 0 THEN 0
    ELSE AccumulateUnweighted(k - 1, v, w, idx) + ExpertOutput(idx[k], v)

\* the loop over the slots: output += weight * gather(expert_outputs, idx)
RECURSIVE Accumulate(_, _, _, _)
Accumulate(k, v, w, idx) ==
    IF k = 0 THEN 0
    ELSE Accumulate(k - 1, v, w, idx) + w[k] * ExpertOutput(idx[k], v)

\* MultiModalMoE.forward(x, expert_weights, top_k_indices, modality_type) of
\* a combiner m = [num_experts, top_k]
MultiModalMoE_forward(m, x, expert_weights, top_k_indices, modality_type) ==
    LET e == MoEError(m, expert_weights, top_k_indices, modality_type)
    IN  IF e # "none" THEN [err |-> e, output |-> <<>>, stats |-> <<>>]
        ELSE [err |-> "none",
              output |-> [b \in 1..Len(x) |-> [q \in 1..Len(x[1]) |->
                            Accumulate(m.top_k, x[b][q], expert_weights[b][q],
                                       top_k_indices[b][q])]],
              stats |-> <<collect_expert_statistics(m, top_k_indices, modality_type,
                                                   modality_to_expert(modality_type))>>]

-----------------------------------------------------------------------------
(* The router called on its own *)

RouterLabels == {"sekai", "nuscenes", "openx", "unknown", "depth", ""}
RouterTensors ==
    UNION {[1..B -> [1..S -> 0..1]] : B \in 1..2, S \in 1..2}

InitRouter ==
    /\ fn_in \in [x : RouterTensors, label : RouterLabels]
    /\ fn_out = <<>>
    /\ pc = "router_call"
    /\ err = "none"
    /\ args = <<>>
    /\ hidden_states = <<>>
    /\ rope_freqs = <<>>
    /\ grid_size = <<0, 0, 0>>
    /\ combined = [present |-> FALSE, rows |-> <<>>]
    /\ start_indice = 0
    /\ IdleModel

CallRouter ==
    /\ pc = "router_call"
    /\ fn_out' = compute_router_decisions(fn_in.x, fn_in.label)
    /\ pc' = "router_done"
    /\ UNCHANGED <<err, fn_in, asmVars, cfgVars, fwdVars>>

NextRouter == CallRouter

SpecRouter == InitRouter /\ [][NextRouter]_vars

-----------------------------------------------------------------------------
(* The combiner called on its own *)

MoEConfigs ==
    {[present |-> TRUE, num_experts |-> e, top_k |-> k] :
        e \in 1..DefaultNumExperts, k \in 1..DefaultTopK}

MoECalls(m) ==
    {[x |-> <<x>>, weights |-> <<w>>, indices |-> <<i>>, label |-> l] :
        x \in {<<1>>, <<2, 1>>},
        w \in UNION {[1..S -> [1..m.top_k -> 1..2]] : S \in 1..2},
        i \in UNION {[1..S -> [1..m.top_k -> 0..(m.num_experts - 1)]] : S \in 1..2},
        l \in {"sekai", "openx"}}

InitMoE ==
    /\ moe_config \in MoEConfigs
    /\ fn_in \in {c \in MoECalls(moe_config) :
                    Len(c.weights[1]) = Len(c.x[1]) /\ Len(c.indices[1]) = Len(c.x[1])}
    /\ fn_out = <<>>
    /\ pc = "moe_call"
    /\ err = "none"
    /\ args = <<>>
    /\ hidden_states = <<>>
    /\ rope_freqs = <<>>
    /\ grid_size = <<0, 0, 0>>
    /\ combined = [present |-> FALSE, rows |-> <<>>]
    /\ start_indice = 0
    /\ use_moe = TRUE
    /\ processors = {}
    /\ trained = FALSE
    /\ modality_inputs = <<>>
    /\ processed_inputs = <<>>
    /\ processed_modality_inputs = NoDict
    /\ original_context_length = 0
    /\ router = NoRouter
    /\ router_calls = 0
    /\ block_log = <<>>
    /\ expert_stats_buffer = [i \in 1..NumLayers |-> NoBuffer]
    /\ output = NoOutput

CallMoE ==
    /\ pc = "moe_call"
    /\ fn_out' = MultiModalMoE_forward(moe_config, fn_in.x, fn_in.weights,
                                       fn_in.indices, fn_in.label)
    /\ pc' = "moe_done"
    /\ err' = fn_out'.err
    /\ UNCHANGED <<fn_in, asmVars, cfgVars, fwdVars>>

NextMoE == CallMoE

SpecMoE == InitMoE /\ [][NextMoE]_vars

-----------------------------------------------------------------------------
(* Top-level forward pass: WanModelMoe.forward *)

Recognized == {"sekai", "nuscenes", "openx"}

\* ModalityProcessor.forward: [batch, seq, input_dim] -> [batch, seq,
\* unified_dim] (a 2-axis input is a sequence of one)
ModalityProcessor_forward(input) == Cam(input.frames, input.label)

\* the inputs the loop of process_modality_inputs processes: a recognized
\* label whose processor is attached; any other label is skipped
Processed(inputs) ==
    SelectSeq(inputs, LAMBDA m : m.label \in Recognized /\ m.label \in processors)

\* process_modality_inputs: ret is "None" (line 652), "tuple" (line 670) or
\* "raise" (line 670 reads the unbound local `processed`)
process_modality_inputs(inputs) ==
    IF inputs = <<>> \/ ~use_moe
    THEN [ret |-> "None", keys |-> <<>>, processed |-> NoCam]
    ELSE LET done == Processed(inputs)
         IN  IF done = <<>>
             THEN [ret |-> "raise", keys |-> <<>>, processed |-> NoCam]
             ELSE [ret |-> "tuple",
                   keys |-> [i \in 1..Len(done) |-> done[i].label],
                   processed |-> ModalityProcessor_forward(done[Len(done)])]

\* a forward that keeps the cam_emb it was called with when there is one
CamEmbKeepingArgument(passed, processed) ==
    IF passed.present THEN passed ELSE processed

\* line 921: what the name cam_emb is bound to once the tuple is unpacked
CamEmbAfterUnpack(passed, processed) == processed

\* line 921: modality_inputs, cam_emb = self.process_modality_inputs(...)
FwdProcessModalityInputs ==
    /\ pc = "forward"
    /\ LET r == process_modality_inputs(modality_inputs)
       IN  /\ err' = CASE r.ret = "None" -> "TypeError"
                       [] r.ret = "raise" -> "UnboundLocalError"
                       [] OTHER -> "none"
           /\ pc' = IF r.ret = "tuple" THEN "clear" ELSE "error"
           /\ processed_inputs' = r.keys
           /\ args' = IF r.ret = "tuple"
                    THEN [args EXCEPT !.cam_emb = CamEmbAfterUnpack(@, r.processed)]
                    ELSE args
    /\ UNCHANGED <<hidden_states, rope_freqs, grid_size, combined, start_indice,
                   cfgVars, modality_inputs, processed_modality_inputs,
                   original_context_length, router, router_calls, block_log,
                   expert_stats_buffer, output, fnVars>>

\* lines 924-926: every block that has a statistics buffer gets an empty one
FwdClearStats ==
    /\ pc = "clear"
    /\ expert_stats_buffer' =
          [i \in 1..NumLayers |->
              IF expert_stats_buffer[i].present
              THEN [present |-> TRUE, recs |-> <<>>] ELSE expert_stats_buffer[i]]
    /\ pc' = "assemble"
    /\ UNCHANGED <<err, asmVars, cfgVars, modality_inputs, processed_inputs,
                   processed_modality_inputs, original_context_length, router,
                   router_calls, block_log, output, fnVars>>

\* lines 929-935 with lines 899-908: the assembler, and the dict it returns
FwdAssemble ==
    /\ pc = "assemble"
    /\ SetAsmState(process_input_hidden_states(args), "prepare")
    /\ processed_modality_inputs' =
          IF processed_inputs # <<>> /\ use_moe
          THEN [present |-> TRUE, keys |-> processed_inputs] ELSE NoDict
    /\ UNCHANGED <<args, cfgVars, modality_inputs, processed_inputs,
                   original_context_length, router, router_calls, block_log,
                   expert_stats_buffer, output, fnVars>>

\* lines 938-943: p is patch_size[2] for the height and for the width
OriginalContextLength(latents, patch_size) ==
    LET p == patch_size[3]
        p_t == patch_size[1]
    IN  (latents[1] \div p_t) * (latents[2] \div p) * (latents[3] \div p)

\* the assertion skipped
RopeAssertionSkipped(rope_len, hidden_len) == TRUE

\* lines 954-955: assert rope_freqs.shape[1] == hidden_states.shape[1]
RopeAssertion(rope_len, hidden_len) == rope_len = hidden_len

\* lines 937-955: the length to keep at the end, and the assertion
FwdPrepare ==
    /\ pc = "prepare"
    /\ original_context_length' = OriginalContextLength(args.latents, args.patch_size)
    /\ IF RopeAssertion(Len(rope_freqs[1]), Len(hidden_states))
       THEN pc' = "router" /\ err' = "none"
       ELSE pc' = "error" /\ err' = "AssertionError"
    /\ UNCHANGED <<asmVars, cfgVars, modality_inputs, processed_inputs,
                   processed_modality_inputs, router, router_calls, block_log,
                   expert_stats_buffer, output, fnVars>>

\* the value of an embedding row: camera frame j holds j + 1, a zero row 0
EmbeddingValue(row) == IF row.cam = -1 THEN 0 ELSE row.cam + 1

\* the sum of the per-modality embeddings (each is the combined embedding)
CombinedModalityInput(keys) ==
    [b \in 1..args.B |-> [q \in 1..Len(combined.rows) |->
        Len(keys) * EmbeddingValue(combined.rows[q])]]

\* lines 957-975: the router decision of the pass
FwdRouter ==
    /\ pc = "router"
    /\ IF use_moe /\ processed_modality_inputs.present
          /\ processed_modality_inputs.keys # <<>>
       THEN LET keys == processed_modality_inputs.keys
                active_modality == keys[Len(keys)]
            IN  IF ~combined.present /\ Len(keys) > 1
                THEN /\ pc' = "error" /\ err' = "TypeError"
                     /\ UNCHANGED <<router, router_calls>>
                ELSE IF ~combined.present
                THEN /\ pc' = "blocks" /\ UNCHANGED <<err, router, router_calls>>
                ELSE /\ router' = compute_router_decisions(
                                      CombinedModalityInput(keys), active_modality)
                     /\ router_calls' = router_calls + 1
                     /\ pc' = "blocks" /\ UNCHANGED err
       ELSE pc' = "blocks" /\ UNCHANGED <<err, router, router_calls>>
    /\ UNCHANGED <<asmVars, cfgVars, modality_inputs, processed_inputs,
                   processed_modality_inputs, original_context_length, block_log,
                   expert_stats_buffer, output, fnVars>>

\* a decision recomputed per block, selecting expert i
RouterArgsPerBlock(i) ==
    [weights |-> router.weights,
     indices |-> [b \in 1..Len(router.indices) |->
                    [q \in 1..Len(router.indices[b]) |->
                        [k \in 1..Len(router.indices[b][q]) |-> i]]]]

\* lines 986-987: the decision handed to block i
RouterArgs(i) == [weights |-> router.weights, indices |-> router.indices]

\* x + y on the sequence axis
Broadcastable(n, m) == n = m \/ n = 1 \/ m = 1

\* a block that adds the encoded camera embedding on top of the MoE output
DiTBlockBothBranches(rw) ==
    IF combined.present
    THEN [branch |-> "A", stats |-> <<>>, added |-> {"moe", "cam"}, err |-> "none"]
    ELSE [branch |-> "C", stats |-> <<>>, added |-> {}, err |-> "none"]

\* a block that tests the camera-encoder branch first
DiTBlockCameraFirst(rw) ==
    IF combined.present /\ trained
    THEN [branch |-> "B", stats |-> <<>>, added |-> {"cam"}, err |-> "none"]
    ELSE [branch |-> "C", stats |-> <<>>, added |-> {},
          err |-> IF trained THEN "none" ELSE "AttributeError"]

\* DiTBlockWithMoE.forward, lines 386-419: the fusion branch taken, the terms
\* it adds to input_x, the statistics it leaves, and the exception that ends
\* it, if any (AttributeError is the read of self.projector at line 419)
DiTBlock_forward(rw) ==
    LET keys == processed_modality_inputs.keys
    IN  IF use_moe /\ processed_modality_inputs.present /\ keys # <<>>
           /\ moe_config.present /\ router.present
        THEN IF ~combined.present
             THEN [branch |-> "A", stats |-> <<>>, added |-> {},
                   err |-> IF Len(keys) > 1 THEN "TypeError"
                           ELSE IF trained THEN "none" ELSE "AttributeError"]
             ELSE LET r == MultiModalMoE_forward(moe_config, CombinedModalityInput(keys),
                                                 rw.weights, rw.indices, keys[Len(keys)])
                  IN  IF r.err # "none"
                      THEN [branch |-> "A", stats |-> <<>>, added |-> {}, err |-> r.err]
                      ELSE IF ~Broadcastable(Len(hidden_states), Len(combined.rows))
                      THEN [branch |-> "A", stats |-> <<>>, added |-> {},
                            err |-> "RuntimeError"]
                      ELSE [branch |-> "A", stats |-> r.stats, added |-> {"moe"},
                            err |-> IF trained THEN "none" ELSE "AttributeError"]
        ELSE IF combined.present /\ trained
        THEN IF Broadcastable(Len(hidden_states), Len(combined.rows))
             THEN [branch |-> "B", stats |-> <<>>, added |-> {"cam"}, err |-> "none"]
             ELSE [branch |-> "B", stats |-> <<>>, added |-> {}, err |-> "RuntimeError"]
        ELSE [branch |-> "C", stats |-> <<>>, added |-> {},
              err |-> IF trained THEN "none" ELSE "AttributeError"]

\* lines 978-988: the next block of the stack
FwdBlock ==
    /\ pc = "blocks"
    /\ Len(block_log) < NumLayers
    /\ LET i == Len(block_log) + 1
           rw == RouterArgs(i)
           r == DiTBlock_forward(rw)
       IN  /\ block_log' = Append(block_log, [branch |-> r.branch, router |-> rw])
           /\ expert_stats_buffer' =
                 IF r.stats # <<>>
                 THEN [expert_stats_buffer EXCEPT
                         ![i] = [present |-> TRUE, recs |-> @.recs \o r.stats]]
                 ELSE expert_stats_buffer
           /\ err' = r.err
           /\ pc' = IF r.err = "none" THEN "blocks" ELSE "error"
    /\ UNCHANGED <<asmVars, cfgVars, modality_inputs, processed_inputs,
                   processed_modality_inputs, original_context_length, router,
                   router_calls, output, fnVars>>

\* an unpatchify that uses the width patch for the height too
unpatchifySquare(grid, patch_size) ==
    <<grid[1] * patch_size[1], grid[2] * patch_size[3], grid[3] * patch_size[3]>>

\* unpatchify: 'b (f h w) (x y z c) -> b c (f x) (h y) (w z)'
unpatchify(grid, patch_size) ==
    <<grid[1] * patch_size[1], grid[2] * patch_size[2], grid[3] * patch_size[3]>>

\* lines 994-998: keep the last original_context_length tokens, head,
\* unpatchify (which needs f*h*w tokens), return
FwdOutput ==
    /\ pc = "blocks"
    /\ Len(block_log) = NumLayers
    /\ LET n == Len(hidden_states)
           kept == PySlice(n, -original_context_length, n)
       IN  /\ hidden_states' = [i \in 1..Len(kept) |-> hidden_states[kept[i] + 1]]
           /\ IF Len(kept) = grid_size[1] * grid_size[2] * grid_size[3]
              THEN /\ output' = [present |-> TRUE,
                                 shape |-> unpatchify(grid_size, args.patch_size),
                                 loss |-> router.loss]
                   /\ pc' = "done" /\ err' = "none"
              ELSE /\ pc' = "error" /\ err' = "EinopsError"
                   /\ UNCHANGED output
    /\ UNCHANGED <<args, rope_freqs, grid_size, combined, start_indice, cfgVars,
                   modality_inputs, processed_inputs, processed_modality_inputs,
                   original_context_length, router, router_calls, block_log,
                   expert_stats_buffer, fnVars>>

ModalityLabels == Recognized \cup {"depth"}
ModalityFrames == {1, 4}
ModalityMenus ==
    {<<>>}
    \cup {<<[label |-> l, frames |-> n]>> : l \in ModalityLabels, n \in ModalityFrames}
    \cup {<<[label |-> l[1], frames |-> n], [label |-> l[2], frames |-> n]>> :
            l \in {p \in ModalityLabels \X ModalityLabels : p[1] # p[2]},
            n \in ModalityFrames}

ForwardInputs ==
    {MkArgs(1, m, c1, c2, NoClean, cam) :
        m \in {[patch |-> p, lat |-> l, idx |-> Absent] : p \in PatchSizes, l \in LatentShapes},
        c1 \in Basic1x(1), c2 \in Basic2x(1), cam \in {NoCam, Cam(2, "arg")}}

Init ==
    /\ use_moe \in BOOLEAN
    /\ moe_config \in {NoConfig} \cup MoEConfigs
    /\ processors \in {{}, Recognized}
    /\ trained \in BOOLEAN
    /\ modality_inputs \in ModalityMenus
    /\ args \in ForwardInputs
    /\ pc = "forward"
    /\ err = "none"
    /\ hidden_states = <<>>
    /\ rope_freqs = <<>>
    /\ grid_size = <<0, 0, 0>>
    /\ combined = [present |-> FALSE, rows |-> <<>>]
    /\ start_indice = 0
    /\ processed_inputs = <<>>
    /\ processed_modality_inputs = NoDict
    /\ original_context_length = 0
    /\ router = NoRouter
    /\ router_calls = 0
    /\ block_log = <<>>
    /\ expert_stats_buffer = [i \in 1..NumLayers |-> NoBuffer]
    /\ output = NoOutput
    /\ fn_in = [cam_emb |-> args.cam_emb]
    /\ fn_out = <<>>

Next ==
    \/ FwdProcessModalityInputs
    \/ FwdClearStats
    \/ FwdAssemble
    \/ FwdPrepare
    \/ FwdRouter
    \/ FwdBlock
    \/ FwdOutput

Spec == Init /\ [][Next]_vars

-----------------------------------------------------------------------------
(* The same model called again and again.  A top-level forward call starts  *)
(* with fresh locals; what survives from one call to the next is the model: *)
(* its configuration and each block's expert_stats_buffer attribute.        *)

CallMenus ==
    {<<>>} \cup {<<[label |-> l, frames |-> 1]>> : l \in ModalityLabels}

CallInputs ==
    {MkArgs(1, [patch |-> <<1, 2, 2>>, lat |-> l, idx |-> Absent],
            NoClean, NoClean, NoClean, cam) :
        l \in LatentShapes, cam \in {NoCam, Cam(2, "arg")}}

\* lines 910-920: the caller calls forward again on the model, after the
\* previous call returned or raised
FwdNextCall ==
    /\ pc \in {"done", "error"}
    /\ modality_inputs' \in CallMenus
    /\ args' \in CallInputs
    /\ fn_in' = [cam_emb |-> args'.cam_emb]
    /\ pc' = "forward"
    /\ err' = "none"
    /\ hidden_states' = <<>>
    /\ rope_freqs' = <<>>
    /\ grid_size' = <<0, 0, 0>>
    /\ combined' = [present |-> FALSE, rows |-> <<>>]
    /\ start_indice' = 0
    /\ processed_inputs' = <<>>
    /\ processed_modality_inputs' = NoDict
    /\ original_context_length' = 0
    /\ router' = NoRouter
    /\ router_calls' = 0
    /\ block_log' = <<>>
    /\ output' = NoOutput
    /\ UNCHANGED <<cfgVars, expert_stats_buffer, fn_out>>

InitCalls ==
    /\ Init
    /\ modality_inputs \in CallMenus
    /\ args \in CallInputs

NextCalls ==
    \/ Next
    \/ FwdNextCall

SpecCalls == InitCalls /\ [][NextCalls]_vars

-----------------------------------------------------------------------------
(* One DiT block called on its own, one stage per step.  The call's x is    *)
(* hidden_states, its cam_emb and the values of its modality_inputs are     *)
(* combined, its modality_inputs is processed_modality_inputs and its       *)
(* router_weights / router_indices are router; fn_in holds the context and  *)
(* the cross-attention's configuration, fn_out what the call has done.      *)

\* line 172: the tokens of the context taken as image context
ImageTokens == 257

\* CrossAttention.forward on a context of n tokens: the tokens taken as image
\* and as text context.  Attention over an empty key sequence raises or
\* returns, as the attention backend in use decides (empty_kv_raises).
CrossAttention_forward(has_image_input, n, empty_kv_raises) ==
    LET img == IF has_image_input THEN Len(PySlice(n, 0, ImageTokens)) ELSE 0
        ctx == IF has_image_input THEN Len(PySlice(n, ImageTokens, n)) ELSE n
    IN  [img |-> img, ctx |-> ctx,
         err |-> IF empty_kv_raises /\ (ctx = 0 \/ (has_image_input /\ img = 0))
                 THEN "RuntimeError" ELSE "none"]

\* a block whose fusion runs after self-attention
NextStageFusionLate(stage) ==
    CASE stage = "modulation" -> "norm_modulate"
      [] stage = "norm_modulate" -> "self_attn"
      [] stage = "self_attn" -> "fusion"
      [] stage = "fusion" -> "cross_attn"
      [] stage = "cross_attn" -> "ffn"
      [] OTHER -> "blk_done"

\* DiTBlockWithMoE.forward is straight-line code: the statement group that
\* follows each group
NextStage(stage) ==
    CASE stage = "modulation" -> "norm_modulate"      \* lines 382-383 -> 384
      [] stage = "norm_modulate" -> "fusion"          \* 384 -> 386-417
      [] stage = "fusion" -> "self_attn"              \* 386-417 -> 419-426
      [] stage = "self_attn" -> "cross_attn"          \* 419-426 -> 427
      [] stage = "cross_attn" -> "ffn"                \* 427 -> 428-429
      [] OTHER -> "blk_done"                          \* 430

\* what a stage does to the running hidden state x: the tensor it reads, and
\* the residual it adds to x (none: it only prepares input_x)
StageEffect(stage) ==
    CASE stage = "modulation" -> [reads |-> "t_mod", residual |-> "none"]
      [] stage = "norm_modulate" -> [reads |-> "x", residual |-> "none"]
      [] stage = "fusion" -> [reads |-> "input_x", residual |-> "none"]
      [] stage = "self_attn" -> [reads |-> "input_x", residual |-> "gated"]
      [] stage = "cross_attn" -> [reads |-> "x", residual |-> "ungated"]
      [] OTHER -> [reads |-> "x", residual |-> "gated"]

\* the stage at pc has run with outcome e, leaving the record out
BlkStep(stage, e, out) ==
    /\ pc = stage
    /\ fn_out' = [out EXCEPT !.stages =
                     Append(@, [name |-> stage, effect |-> StageEffect(stage)])]
    /\ err' = e
    /\ pc' = IF e = "none" THEN NextStage(stage) ELSE "error"
    /\ UNCHANGED <<fn_in, asmVars, cfgVars, modality_inputs, processed_inputs,
                   processed_modality_inputs, original_context_length, router,
                   router_calls, block_log, output>>

\* lines 382-383: the six modulation tensors
BlkModulation ==
    /\ BlkStep("modulation", "none", fn_out)
    /\ UNCHANGED expert_stats_buffer

\* line 384: input_x = modulate(norm1(x), shift_msa, scale_msa)
BlkNormModulate ==
    /\ BlkStep("norm_modulate", "none", fn_out)
    /\ UNCHANGED expert_stats_buffer

\* lines 386-417: the fusion branch; Branch A appends its statistics record
BlkFusion ==
    LET r == DiTBlock_forward(RouterArgs(1))
        e == IF r.err = "AttributeError" THEN "none" ELSE r.err
    IN  /\ BlkStep("fusion", e, [fn_out EXCEPT !.branch = r.branch, !.added = r.added])
        /\ expert_stats_buffer' =
              IF r.stats # <<>>
              THEN [expert_stats_buffer EXCEPT
                      ![1] = [present |-> TRUE, recs |-> @.recs \o r.stats]]
              ELSE expert_stats_buffer

\* lines 419-425: self-attention through self.projector, gated residual
BlkSelfAttn ==
    /\ BlkStep("self_attn",
               IF ~trained THEN "AttributeError"
               ELSE IF Len(rope_freqs[1]) # Len(hidden_states) THEN "RuntimeError"
               ELSE "none",
               fn_out)
    /\ UNCHANGED expert_stats_buffer

\* lines 426-427: x = x + cross_attn(norm3(x), context)
BlkCrossAttn ==
    LET r == CrossAttention_forward(fn_in.has_image_input, fn_in.context_len,
                                    fn_in.empty_kv_raises)
    IN  /\ BlkStep("cross_attn", r.err, [fn_out EXCEPT !.img = r.img, !.ctx = r.ctx])
        /\ UNCHANGED expert_stats_buffer

\* lines 428-430: modulate(norm2(x)), FFN, gated residual, return
BlkFfn ==
    /\ BlkStep("ffn", "none", fn_out)
    /\ UNCHANGED expert_stats_buffer

ContextLengths == {0, 10, 256, 257, 258, 267}
BlockTokens == 1..2
BlockDicts ==
    {NoDict} \cup {[present |-> TRUE, keys |-> k] :
                      k \in {<<"sekai">>, <<"nuscenes">>, <<"sekai", "openx">>}}
BlockCameras ==
    {[present |-> FALSE, rows |-> <<>>]}
    \cup {[present |-> TRUE, rows |-> CamBlock("main", <<0>>, 1, m)] : m \in BlockTokens}

InitBlock ==
    /\ use_moe \in BOOLEAN
    /\ moe_config \in {NoConfig} \cup {c \in MoEConfigs : c.num_experts = DefaultNumExperts}
    /\ trained \in BOOLEAN
    /\ processors = {}
    /\ args = MkArgs(1, [patch |-> <<1, 2, 2>>, lat |-> <<1, 2, 2>>, idx |-> Absent],
                     NoClean, NoClean, NoClean, NoCam)
    /\ \E n \in BlockTokens :
          /\ hidden_states = TokenBlock("main", 1, 1, n)
          /\ rope_freqs = <<RopeBlock("main", <<0>>, 1, n)>>
    /\ grid_size = <<1, 1, Len(hidden_states)>>
    /\ combined \in BlockCameras
    /\ start_indice = 0
    /\ processed_modality_inputs \in BlockDicts
    /\ router \in {NoRouter}
           \cup {compute_router_decisions(
                     [b \in 1..1 |-> [q \in 1..Max(Len(combined.rows), 1) |-> 0]], l) :
                     l \in {"sekai", "nuscenes"}}
    /\ fn_in \in [context_len : ContextLengths, has_image_input : BOOLEAN,
                  empty_kv_raises : BOOLEAN]
    /\ fn_out = [stages |-> <<>>, branch |-> "none", added |-> {}, img |-> 0, ctx |-> 0]
    /\ modality_inputs = <<>>
    /\ processed_inputs = <<>>
    /\ original_context_length = 0
    /\ router_calls = 0
    /\ block_log = <<>>
    /\ expert_stats_buffer = [i \in 1..NumLayers |-> NoBuffer]
    /\ output = NoOutput
    /\ pc = "modulation"
    /\ err = "none"

NextBlock ==
    \/ BlkModulation
    \/ BlkNormModulate
    \/ BlkFusion
    \/ BlkSelfAttn
    \/ BlkCrossAttn
    \/ BlkFfn

SpecBlock == InitBlock /\ [][NextBlock]_vars

-----------------------------------------------------------------------------
(* The clean-latent embedder called on its own *)

\* an embedder that treats every unknown tag as "1x"
CleanXEmbedderLenient(x, scale) ==
    LET k == IF scale = "2x" THEN Kernel2x ELSE IF scale = "4x" THEN Kernel4x ELSE Kernel1x
    IN  [err |-> "none", message |-> <<>>,
         conv |-> IF scale = "2x" THEN "proj_2x" ELSE IF scale = "4x" THEN "proj_4x"
                  ELSE "proj",
         shape |-> ConvGrid(x, k)]

\* CleanXEmbedder.forward(x, scale), lines 581-589, on a latent of extents x:
\* the convolution selected and the extents of its output; a Conv3d raises
\* on an input smaller than its kernel
CleanXEmbedder_forward(x, scale) ==
    IF scale \notin {"1x", "2x", "4x"}
    THEN [err |-> "ValueError", message |-> <<"Unsupported scale: ", scale>>,
          conv |-> "none", shape |-> <<>>]
    ELSE LET k == IF scale = "1x" THEN Kernel1x
                  ELSE IF scale = "2x" THEN Kernel2x ELSE Kernel4x
             conv == IF scale = "1x" THEN "proj"
                     ELSE IF scale = "2x" THEN "proj_2x" ELSE "proj_4x"
         IN  IF \E i \in 1..3 : x[i] < k[i]
             THEN [err |-> "RuntimeError", message |-> <<>>, conv |-> conv, shape |-> <<>>]
             ELSE [err |-> "none", message |-> <<>>, conv |-> conv,
                   shape |-> ConvGrid(x, k)]

ScaleTags == {"1x", "2x", "4x", "8x", "1X", "", "3x"}
EmbedderShapes == {<<f, h, w>> : f \in 1..4, h \in {2, 4, 8}, w \in {2, 4, 8}}

InitEmbedder ==
    /\ fn_in \in [x : EmbedderShapes, scale : ScaleTags]
    /\ fn_out = <<>>
    /\ pc = "embed_call"
    /\ err = "none"
    /\ args = <<>>
    /\ hidden_states = <<>>
    /\ rope_freqs = <<>>
    /\ grid_size = <<0, 0, 0>>
    /\ combined = [present |-> FALSE, rows |-> <<>>]
    /\ start_indice = 0
    /\ IdleModel

CallEmbedder ==
    /\ pc = "embed_call"
    /\ fn_out' = CleanXEmbedder_forward(fn_in.x, fn_in.scale)
    /\ err' = fn_out'.err
    /\ pc' = "embed_done"
    /\ UNCHANGED <<fn_in, asmVars, cfgVars, fwdVars>>

NextEmbedder == CallEmbedder

SpecEmbedder == InitEmbedder /\ [][NextEmbedder]_vars

-----------------------------------------------------------------------------
(* TextVideoDataset.__getitem__ (train_recam.py), one load attempt per step. *)
(* fn_in is the dataset and the call: the kind of the file behind each       *)
(* index, is_i2v and the data_id asked for; fn_out holds the locals data_id  *)
(* and path, the attempts made and the data returned (-1: none yet).         *)

\* the body of the try block, lines 107-117, on the file behind index path:
\* TRUE when it reaches `break`, FALSE when it raises
LoadSucceeds(kinds, is_i2v, path) ==
    CASE kinds[path] = "video" -> TRUE
      [] kinds[path] = "image" -> ~is_i2v      \* line 109: I2V rejects an image
      [] OTHER -> FALSE                        \* unreadable media: the reader raises

\* lines 103-104: text and path are read once, before the loop
InitDataset ==
    /\ fn_in \in [kinds : [0..(DatasetLen - 1) -> {"video", "image", "broken"}],
                  is_i2v : BOOLEAN, data_id : 0..(DatasetLen - 1)]
    /\ fn_out = [data_id |-> fn_in.data_id, path |-> fn_in.data_id, tries |-> 0,
                 data |-> -1]
    /\ pc = "ds_loading"
    /\ err = "none"
    /\ args = <<>>
    /\ hidden_states = <<>>
    /\ rope_freqs = <<>>
    /\ grid_size = <<0, 0, 0>>
    /\ combined = [present |-> FALSE, rows |-> <<>>]
    /\ start_indice = 0
    /\ IdleModel

\* lines 105-118: one pass of `while True` that reaches `break`, then line 121
DatasetLoad ==
    /\ pc = "ds_loading"
    /\ LoadSucceeds(fn_in.kinds, fn_in.is_i2v, fn_out.path)
    /\ fn_out' = [fn_out EXCEPT !.data = fn_out.path, !.tries = @ + 1]
    /\ pc' = "ds_returned"
    /\ UNCHANGED <<err, fn_in, asmVars, cfgVars, fwdVars>>

\* lines 119-120: the bare except; data_id += 1 and the loop goes round
DatasetExcept ==
    /\ pc = "ds_loading"
    /\ ~LoadSucceeds(fn_in.kinds, fn_in.is_i2v, fn_out.path)
    /\ fn_out.tries < MaxTries
    /\ fn_out' = [fn_out EXCEPT !.data_id = @ + 1, !.tries = @ + 1]
    /\ UNCHANGED <<pc, err, fn_in, asmVars, cfgVars, fwdVars>>

NextDataset == DatasetLoad \/ DatasetExcept

SpecDataset == InitDataset /\ [][NextDataset]_vars

-----------------------------------------------------------------------------
(* The RoPE tables of a head dimension, and rope_apply on them *)

\* precompute_freqs_cis(dim): the entries per position of the table,
\* len(torch.arange(0, dim, 2)[: dim // 2])
precompute_freqs_cis(dim) == Min((dim + 1) \div 2, dim \div 2)

\* precompute_freqs_cis_3d(dim): the entries per position of the time,
\* height and width tables
precompute_freqs_cis_3d(dim) ==
    <<precompute_freqs_cis(dim - 2 * (dim \div 3)),
      precompute_freqs_cis(dim \div 3),
      precompute_freqs_cis(dim \div 3)>>

\* rope_apply on heads of dimension d with frequency rows of n entries: the
\* head is viewed as d / 2 complex numbers and multiplied by the row, which
\* broadcasts when the lengths agree or one of them is 1
rope_apply(d, n) ==
    IF d % 2 # 0 THEN "RuntimeError"
    ELSE IF Broadcastable(d \div 2, n) THEN "none" ELSE "RuntimeError"

InitRope ==
    /\ fn_in \in [d : {2 * i : i \in 1..MaxHalfDim}]
    /\ fn_out = <<>>
    /\ pc = "rope_call"
    /\ err = "none"
    /\ args = <<>>
    /\ hidden_states = <<>>
    /\ rope_freqs = <<>>
    /\ grid_size = <<0, 0, 0>>
    /\ combined = [present |-> FALSE, rows |-> <<>>]
    /\ start_indice = 0
    /\ IdleModel

\* the tables built at construction (lines 531-532) and one rope_apply on the
\* concatenation of their rows
CallRope ==
    /\ pc = "rope_call"
    /\ LET t == precompute_freqs_cis_3d(fn_in.d)
       IN  /\ fn_out' = [f |-> t[1], h |-> t[2], w |-> t[3]]
           /\ err' = rope_apply(fn_in.d, t[1] + t[2] + t[3])
    /\ pc' = "rope_done"
    /\ UNCHANGED <<fn_in, asmVars, cfgVars, fwdVars>>

NextRope == CallRope

SpecRope == InitRope /\ [][NextRope]_vars

-----------------------------------------------------------------------------
(* patchify followed by unpatchify on the head output of its grid *)

PatchLatents == {<<f, h, w>> : f \in 1..4, h \in 1..4, w \in 1..4}
PatchMenu == PatchSizes \cup {<<2, 2, 2>>, <<1, 1, 2>>}

InitPatch ==
    /\ fn_in \in [latents : PatchLatents, patch_size : PatchMenu]
    /\ fn_out = <<>>
    /\ pc = "patch_call"
    /\ err = "none"
    /\ args = <<>>
    /\ hidden_states = <<>>
    /\ rope_freqs = <<>>
    /\ grid_size = <<0, 0, 0>>
    /\ combined = [present |-> FALSE, rows |-> <<>>]
    /\ start_indice = 0
    /\ IdleModel

\* lines 558-569: patchify (a Conv3d raises on an input smaller than its
\* kernel), then unpatchify of a head output with one row per token
CallPatch ==
    /\ pc = "patch_call"
    /\ IF \E i \in 1..3 : fn_in.latents[i] < fn_in.patch_size[i]
       THEN /\ err' = "RuntimeError"
            /\ fn_out' = [grid |-> <<>>, tokens |-> 0, shape |-> <<>>]
       ELSE LET grid == patchify(fn_in.latents, fn_in.patch_size)
            IN  /\ err' = "none"
                /\ fn_out' = [grid |-> grid,
                              tokens |-> Len(TokenBlock("main", grid[1], grid[2], grid[3])),
                              shape |-> unpatchify(grid, fn_in.patch_size)]
    /\ pc' = "patch_done"
    /\ UNCHANGED <<fn_in, asmVars, cfgVars, fwdVars>>

NextPatch == CallPatch

SpecPatch == InitPatch /\ [][NextPatch]_vars

-----------------------------------------------------------------------------
(* One training step: LightningModelForTrain.training_step from the noise   *)
(* draw to the loss.  A latent tensor [B, C, T, H, W] is the sequence of    *)
(* its T frames; a frame is the record of a clean value and of the noise    *)
(* the scheduler mixed into it, 0 for none.  fn_in holds latents, noise and *)
(* target_frames, fn_out the step's locals.                                 *)

FrameValues == 0..2
CleanFrame(v) == [clean |-> v, noise |-> 0]

\* scheduler.add_noise(latents, noise, timestep): every frame mixed with its
\* noise at the step's timestep
add_noise(latents, noise) ==
    [f \in 1..Len(latents) |-> [clean |-> latents[f].clean, noise |-> noise[f]]]

\* scheduler.training_target(latents, noise, timestep), frame by frame
training_target(latents, noise) ==
    [f \in 1..Len(latents) |-> [target_of |-> latents[f].clean, noise |-> noise[f]]]

\* the first tgt_len frames put back instead of the frames behind them
KeepConditionHead(noisy_latents, origin_latents, tgt_len) ==
    LET kept == PySlice(Len(noisy_latents), 0, tgt_len)
    IN  [f \in 1..Len(noisy_latents) |->
            IF \E i \in 1..Len(kept) : kept[i] + 1 = f
            THEN origin_latents[f] ELSE noisy_latents[f]]

\* line 392: noisy_latents[:, :, tgt_len:, ...] = origin_latents[:, :, tgt_len:, ...]
KeepCondition(noisy_latents, origin_latents, tgt_len) ==
    LET kept == PySlice(Len(noisy_latents), tgt_len, Len(noisy_latents))
    IN  [f \in 1..Len(noisy_latents) |->
            IF \E i \in 1..Len(kept) : kept[i] + 1 = f
            THEN origin_latents[f] ELSE noisy_latents[f]]

\* lines 401-404: the frames x[:, :, :tgt_len, ...] of a tensor
HeadFrames(x, tgt_len) ==
    LET kept == PySlice(Len(x), 0, tgt_len)
    IN  [i \in 1..Len(kept) |-> [frame |-> kept[i], value |-> x[kept[i] + 1]]]

NoLocals ==
    [origin_latents |-> <<>>, noisy_latents |-> <<>>, training_target |-> <<>>,
     model_input |-> <<>>, noise_pred |-> <<>>, loss_pred |-> <<>>, loss_target |-> <<>>]

InitTrain ==
    /\ fn_in \in UNION {[latents : [1..T -> {CleanFrame(v) : v \in FrameValues}],
                         noise : {[f \in 1..T |-> 10 + f]},
                         target_frames : 0..(MaxFrames + 1)] : T \in 1..MaxFrames}
    /\ fn_out = NoLocals
    /\ pc = "train_noise"
    /\ err = "none"
    /\ args = <<>>
    /\ hidden_states = <<>>
    /\ rope_freqs = <<>>
    /\ grid_size = <<0, 0, 0>>
    /\ combined = [present |-> FALSE, rows |-> <<>>]
    /\ start_indice = 0
    /\ IdleModel

TrainStep(from, to, e, locals) ==
    /\ pc = from
    /\ fn_out' = locals
    /\ err' = e
    /\ pc' = IF e = "none" THEN to ELSE "error"
    /\ UNCHANGED <<fn_in, asmVars, cfgVars, fwdVars>>

\* lines 386-387: origin_latents = deepcopy(latents); noisy_latents = add_noise(...)
TrainAddNoise ==
    /\ pc = "train_noise"
    /\ TrainStep("train_noise", "train_keep", "none",
                 [fn_out EXCEPT !.origin_latents = fn_in.latents,
                                !.noisy_latents = add_noise(fn_in.latents, fn_in.noise)])

\* lines 390-392: the assertion on T, then the condition frames made clean again
TrainKeepCondition ==
    IF Len(fn_out.noisy_latents) >= fn_in.target_frames
    THEN TrainStep("train_keep", "train_target", "none",
                   [fn_out EXCEPT !.noisy_latents =
                       KeepCondition(@, fn_out.origin_latents, fn_in.target_frames)])
    ELSE TrainStep("train_keep", "train_target", "AssertionError", fn_out)

\* line 393
TrainTarget ==
    /\ pc = "train_target"
    /\ TrainStep("train_target", "train_model", "none",
                 [fn_out EXCEPT !.training_target =
                     training_target(fn_in.latents, fn_in.noise)])

\* lines 396-400: the denoising model called on noisy_latents; its
\* prediction has the input's extents and any values
TrainPredict ==
    \E pred \in [1..Len(fn_out.noisy_latents) -> 0..1] :
        TrainStep("train_model", "train_loss", "none",
                  [fn_out EXCEPT !.model_input = fn_out.noisy_latents,
                                 !.noise_pred = pred])

\* lines 401-405: mse_loss over the first tgt_len frames of both tensors
TrainLoss ==
    /\ pc = "train_loss"
    /\ TrainStep("train_loss", "train_done", "none",
                 [fn_out EXCEPT
                     !.loss_pred = HeadFrames(fn_out.noise_pred, fn_in.target_frames),
                     !.loss_target = HeadFrames(fn_out.training_target, fn_in.target_frames)])

NextTrain ==
    \/ TrainAddNoise
    \/ TrainKeepCondition
    \/ TrainTarget
    \/ TrainPredict
    \/ TrainLoss

SpecTrain == InitTrain /\ [][NextTrain]_vars

-----------------------------------------------------------------------------
(* Claims about the assembler (checked under SpecAsm) *)

Returned == pc = "asm_done"

\* C1: whatever scales are enabled and whatever the shapes and frame-index
\* lists, the returned token sequence is as long as the returned
\* RoPE-frequency tensor's sequence axis.
C1_TokenRopeSameLength ==
    Returned => \A b \in 1..args.B : Len(rope_freqs[b]) = Len(hidden_states)

\* C2: when a camera embedding is supplied, the returned camera tensor is as
\* long as the token sequence and row i belongs to the scale and the frame
\* of token i.
C2_CameraAlignedWithTokens ==
    (Returned /\ combined.present) =>
        /\ Len(combined.rows) = Len(hidden_states)
        /\ \A i \in 1..Len(hidden_states) :
              /\ combined.rows[i].seg = hidden_states[i].seg
              /\ combined.rows[i].f = hidden_states[i].f

\* the scales a call enables
Enabled1x(a) == a.clean_latents # <<>> /\ a.clean_latent_indices.present
Enabled2x(a) ==
    /\ a.clean_latents_2x # <<>> /\ a.clean_latent_2x_indices.present
    /\ \E b \in 1..Len(a.clean_latent_2x_indices.rows) :
          \E i \in 1..Len(a.clean_latent_2x_indices.rows[b]) :
              a.clean_latent_2x_indices.rows[b][i] >= 0
Enabled4x(a) ==
    /\ a.clean_latents_4x # <<>> /\ a.clean_latent_4x_indices.present
    /\ \E b \in 1..Len(a.clean_latent_4x_indices.rows) :
          \E i \in 1..Len(a.clean_latent_4x_indices.rows[b]) :
              a.clean_latent_4x_indices.rows[b][i] >= 0
EnabledSegments(a) ==
    {"main"} \cup (IF Enabled1x(a) THEN {"1x"} ELSE {})
             \cup (IF Enabled2x(a) THEN {"2x"} ELSE {})
             \cup (IF Enabled4x(a) THEN {"4x"} ELSE {})

SegRank(seg) == CASE seg = "4x" -> 0 [] seg = "2x" -> 1 [] seg = "1x" -> 2 [] OTHER -> 3

\* the rows of seq lie in the order [4x][2x][1x][main], with exactly the
\* segments of segs
InSegmentOrder(seq, segs) ==
    /\ {seq[i].seg : i \in 1..Len(seq)} = segs
    /\ \A i \in 1..Len(seq) : \A j \in i..Len(seq) :
          SegRank(seq[i].seg) <= SegRank(seq[j].seg)

\* C3: the returned tokens are ordered [4x][2x][1x][primary], a disabled
\* scale simply missing, and the RoPE-frequency rows are concatenated in the
\* same segment order.
C3_SegmentOrder ==
    Returned =>
        /\ InSegmentOrder(hidden_states, EnabledSegments(args))
        /\ \A b \in 1..args.B : InSegmentOrder(rope_freqs[b], EnabledSegments(args))

\* only 2x and 1x enabled: the order is [2x][1x][primary]
C3_Witness ==
    /\ Returned
    /\ EnabledSegments(args) = {"2x", "1x", "main"}
    /\ hidden_states[1].seg = "2x"
    /\ hidden_states[Len(hidden_states)].seg = "main"
    /\ \E i \in 1..Len(hidden_states) : hidden_states[i].seg = "1x"


-----------------------------------------------------------------------------
(* Claims about the router (checked under SpecRouter) *)

\* the Modality-to-Expert Map as the specification states it
ExpectedExpert(label) ==
    IF label = "nuscenes" THEN 1 ELSE IF label = "openx" THEN 2 ELSE 0

\* C5: for any label and any shape the router returns expert_indices filled
\* with the map's value for the label (0 for a label not in the map),
\* expert_weights filled with 1.0 and a zero loss, and the result is the same
\* for every input tensor of that shape.
C5_RouterDecision ==
    pc = "router_done" =>
        LET B == Len(fn_in.x)
            S == Len(fn_in.x[1])
        IN  /\ Len(fn_out.indices) = B /\ Len(fn_out.weights) = B
            /\ \A b \in 1..B :
                  /\ Len(fn_out.indices[b]) = S /\ Len(fn_out.weights[b]) = S
                  /\ \A q \in 1..S :
                        /\ Len(fn_out.indices[b][q]) >= 1
                        /\ Len(fn_out.weights[b][q]) = Len(fn_out.indices[b][q])
                        /\ \A k \in 1..Len(fn_out.indices[b][q]) :
                              /\ fn_out.indices[b][q][k] = ExpectedExpert(fn_in.label)
                              /\ fn_out.weights[b][q][k] = 1
            /\ fn_out.loss = 0
            /\ \A y \in RouterTensors :
                  (Len(y) = B /\ Len(y[1]) = S)
                      => compute_router_decisions(y, fn_in.label) = fn_out

\* a label outside the map, routed to expert 0 on a 2 x 2 input of mixed values
C5_Witness ==
    /\ pc = "router_done"
    /\ fn_in.label = "depth"
    /\ fn_in.x = <<<<0, 1>>, <<1, 0>>>>
    /\ fn_out.indices[2][2][1] = 0

-----------------------------------------------------------------------------
(* Claims about the combiner (checked under SpecMoE) *)

\* C8: the combiner's output for a token is the sum over the top_k slots of
\* weight_k times the output of the expert index_k selects; with top_k = 1
\* and weight 1.0 it is exactly the designated expert's linear output.
C8_WeightedSum ==
    (pc = "moe_done" /\ err = "none") =>
        \A b \in 1..Len(fn_in.x) : \A q \in 1..Len(fn_in.x[1]) :
            LET v == fn_in.x[b][q]
                w == fn_in.weights[b][q]
                i == fn_in.indices[b][q]
            IN  /\ moe_config.top_k = 1 =>
                      fn_out.output[b][q] = w[1] * ExpertOutput(i[1], v)
                /\ moe_config.top_k = 2 =>
                      fn_out.output[b][q] =
                          w[1] * ExpertOutput(i[1], v) + w[2] * ExpertOutput(i[2], v)
                /\ (moe_config.top_k = 1 /\ w[1] = 1) =>
                      fn_out.output[b][q] = ExpertOutput(i[1], v)

\* two slots selecting different experts with different weights
C8_Witness ==
    /\ pc = "moe_done" /\ err = "none"
    /\ moe_config.top_k = 2
    /\ fn_in.indices[1][1] = <<2, 0>>
    /\ fn_in.weights[1][1] = <<1, 2>>
    /\ fn_out.output[1][1] = ExpertOutput(2, fn_in.x[1][1]) + 2 * ExpertOutput(0, fn_in.x[1][1])


-----------------------------------------------------------------------------
(* Claims about the forward pass (checked under Spec) *)

\* C4: a forward call on a model with MoE disabled and no modality inputs
\* completes without error and returns a tensor with the extents of the
\* input latent and a specialization loss of exactly 0.
C4_PlainForwardCompletes ==
    (~use_moe /\ modality_inputs = <<>>) =>
        /\ err = "none"
        /\ pc = "done" => (output.shape = args.latents /\ output.loss = 0)

\* C6: the router is invoked once per pass, before the first block runs, and
\* every block receives the decision it computed; no block computes or
\* alters a decision.
C6_RouterOncePerPass ==
    /\ router_calls <= 1
    /\ router.present <=> router_calls = 1
    /\ pc \in {"forward", "clear", "assemble", "prepare", "router"} => block_log = <<>>
    /\ block_log # <<>> => router_calls = 1
    /\ \A i \in 1..Len(block_log) :
          block_log[i].router = [weights |-> router.weights, indices |-> router.indices]

\* a completed pass whose blocks all took the MoE branch with the decision
\* for "nuscenes"
C6_Witness ==
    /\ pc = "done"
    /\ Len(block_log) = NumLayers
    /\ router_calls = 1
    /\ \A i \in 1..NumLayers :
          /\ block_log[i].branch = "A"
          /\ block_log[i].router.indices[1][1][1] = 1

\* C7: the router decision has top_k slots, top_k being the top_k of the MoE
\* configuration, so every block's combiner can read all of its slots.
C7_RouterSlotsAreMoETopK ==
    (router.present /\ use_moe /\ moe_config.present) =>
        /\ Slots(router.indices) = moe_config.top_k
        /\ Slots(router.weights) = moe_config.top_k

\* C9: original_context_length is the number of primary tokens patchify
\* produced, so the slice keeps exactly the primary tokens.
C9_ContextLengthIsPrimaryTokens ==
    pc \in {"router", "blocks"} =>
        /\ original_context_length = grid_size[1] * grid_size[2] * grid_size[3]
        /\ original_context_length =
              Cardinality({i \in 1..Len(hidden_states) : hidden_states[i].seg = "main"})

\* C10: a forward call (MoE enabled) whose modality_inputs carries an
\* unrecognized label does not fail on it.
C10_UnknownLabelDoesNotFail ==
    (use_moe /\ \E i \in 1..Len(modality_inputs) : modality_inputs[i].label \notin Recognized)
        => ~(pc = "error" /\ err = "UnboundLocalError")


\* C11: if the RoPE-frequency sequence length differs from the token sequence
\* length the pass aborts with an error before the router and before any
\* block; no block ever runs on tensors of different lengths, and the abort
\* leaves both tensors as the assembler returned them.
C11_MismatchAborts ==
    /\ pc \in {"router", "blocks"} => Len(rope_freqs[1]) = Len(hidden_states)
    /\ (block_log # <<>> /\ pc = "error" /\ err # "EinopsError") =>
          Len(rope_freqs[1]) = Len(hidden_states)
    /\ (pc = "error" /\ err = "AssertionError") =>
          /\ Len(rope_freqs[1]) # Len(hidden_states)
          /\ hidden_states = process_input_hidden_states(args).hidden
          /\ rope_freqs = process_input_hidden_states(args).rope
          /\ block_log = <<>>
          /\ router_calls = 0
          /\ output = NoOutput

\* a pass aborted by the assertion on a non-empty token sequence
C11_Witness ==
    /\ pc = "error" /\ err = "AssertionError"
    /\ Len(hidden_states) > 0
    /\ Len(rope_freqs[1]) # Len(hidden_states)
    /\ block_log = <<>>


-----------------------------------------------------------------------------
(* Claims about one DiT block call (checked under SpecBlock) *)

StageNames == [i \in 1..Len(fn_out.stages) |-> fn_out.stages[i].name]
StageRan(name) == \E i \in 1..Len(fn_out.stages) : fn_out.stages[i].name = name

\* C12: cross-attention configured for image conditioning raises whenever its
\* context has fewer than 257 tokens; with 257 or more the first 257 are the
\* image context and the remainder the text context.
C12_ShortImageContextFails ==
    (StageRan("cross_attn") /\ fn_in.has_image_input) =>
        /\ fn_in.context_len < 257 => (pc = "error" /\ err # "none")
        /\ fn_in.context_len >= 257 =>
              (fn_out.img = 257 /\ fn_out.ctx = fn_in.context_len - 257)

\* C18: every block call takes exactly one fusion branch, once: A adds at
\* most the MoE output, B at most the encoded camera embedding, C nothing;
\* no call adds both.
C18_OneFusionBranch ==
    /\ ~StageRan("fusion") => (fn_out.branch = "none" /\ fn_out.added = {})
    /\ StageRan("fusion") =>
          /\ fn_out.branch \in {"A", "B", "C"}
          /\ Cardinality({i \in 1..Len(fn_out.stages) :
                            fn_out.stages[i].name = "fusion"}) = 1
          /\ fn_out.added # {"moe", "cam"}
          /\ fn_out.branch = "A" => fn_out.added \subseteq {"moe"}
          /\ fn_out.branch = "B" => fn_out.added \subseteq {"cam"}
          /\ fn_out.branch = "C" => fn_out.added = {}

\* a completed call that had both an MoE decision and a camera embedding with
\* its encoder, and added the MoE output only
C18_Witness ==
    /\ pc = "blk_done"
    /\ combined.present /\ trained
    /\ fn_out.branch = "A"
    /\ fn_out.added = {"moe"}

\* C19 as stated: MoE enabled, modality inputs present and router weights
\* supplied make the block take Branch A, never the camera-encoder branch.
C19_BranchAWhenRouted ==
    (StageRan("fusion") /\ use_moe /\ processed_modality_inputs.present
        /\ processed_modality_inputs.keys # <<>> /\ router.present)
    => (fn_out.branch = "A" /\ "cam" \notin fn_out.added)

\* C19 amended: the same for a block that was built with an MoE configuration
\* (and so has a combiner): it takes Branch A, never adds the encoded camera
\* embedding, and when the combiner returns, its output is what is added and
\* its statistics record is appended.
C19_BranchAWithCombiner ==
    (StageRan("fusion") /\ use_moe /\ moe_config.present
        /\ processed_modality_inputs.present
        /\ processed_modality_inputs.keys # <<>> /\ router.present)
    => /\ fn_out.branch = "A"
       /\ "cam" \notin fn_out.added
       /\ (combined.present /\ ~(pc = "error" /\ Len(fn_out.stages) = 3)) =>
             /\ fn_out.added = {"moe"}
             /\ expert_stats_buffer[1].present
             /\ Len(expert_stats_buffer[1].recs) = 1

\* two modality embeddings summed and routed through the combiner
C19_Witness ==
    /\ StageRan("fusion") /\ pc # "error"
    /\ use_moe /\ moe_config.present /\ router.present
    /\ processed_modality_inputs.keys = <<"sekai", "openx">>
    /\ combined.present
    /\ fn_out.branch = "A"
    /\ fn_out.added = {"moe"}
    /\ Len(expert_stats_buffer[1].recs) = 1

\* the stages of a block call in the order the specification lists them
BlockStageOrder ==
    <<"modulation", "norm_modulate", "fusion", "self_attn", "cross_attn", "ffn">>

\* C20: the stages of a block call run once each in the fixed order, none
\* repeated or revisited; fusion precedes self-attention; self-attention and
\* the FFN add a gated residual, cross-attention an ungated one.
C20_StagesInOrder ==
    /\ Len(fn_out.stages) <= Len(BlockStageOrder)
    /\ \A i \in 1..Len(fn_out.stages) :
          /\ StageNames[i] = BlockStageOrder[i]
          /\ StageNames[i] \in {"self_attn", "ffn"} =>
                fn_out.stages[i].effect.residual = "gated"
          /\ StageNames[i] = "cross_attn" =>
                fn_out.stages[i].effect.residual = "ungated"
          /\ StageNames[i] \in {"modulation", "norm_modulate", "fusion"} =>
                fn_out.stages[i].effect.residual = "none"
    /\ pc = "blk_done" => Len(fn_out.stages) = Len(BlockStageOrder)
    /\ pc \notin {"blk_done", "error"} => pc = BlockStageOrder[Len(fn_out.stages) + 1]

\* a completed call through the camera-encoder branch
C20_Witness ==
    /\ pc = "blk_done"
    /\ fn_out.branch = "B"
    /\ StageNames = BlockStageOrder


-----------------------------------------------------------------------------
(* Claims about the clean-latent embedder (checked under SpecEmbedder) *)

\* C13: a scale tag other than "1x", "2x", "4x" fails with an invalid-argument
\* error whose message names the tag; each defined tag selects its own
\* convolution.
C13_UnknownScaleRejected ==
    pc = "embed_done" =>
        /\ fn_in.scale \notin {"1x", "2x", "4x"} =>
              /\ err = "ValueError"
              /\ fn_out.message # <<>>
              /\ fn_out.message[Len(fn_out.message)] = fn_in.scale
              /\ fn_out.conv = "none"
        /\ fn_in.scale = "1x" => (fn_out.conv = "proj" /\ err # "ValueError")
        /\ fn_in.scale = "2x" => (fn_out.conv = "proj_2x" /\ err # "ValueError")
        /\ fn_in.scale = "4x" => (fn_out.conv = "proj_4x" /\ err # "ValueError")

\* the tag "8x" rejected by name
C13_Witness ==
    /\ pc = "embed_done"
    /\ fn_in.scale = "8x"
    /\ err = "ValueError"
    /\ fn_out.message = <<"Unsupported scale: ", "8x">>


-----------------------------------------------------------------------------
(* Claims about the video dataset (checked under SpecDataset) *)

\* C14: when loading the item at an index fails, __getitem__ moves on to the
\* next index: the file it tries next is the one behind the incremented
\* data_id, never the failing file again, and what it returns is the data of
\* the index it has moved to.
C14_FailedLoadMovesOn ==
    /\ pc = "ds_loading" => fn_out.path = fn_out.data_id
    /\ pc = "ds_returned" => fn_out.data = fn_out.data_id


-----------------------------------------------------------------------------
(* Claims about the RoPE tables (checked under SpecRope) *)

\* C15: for every even head dimension d the per-position lengths of the
\* time, height and width tables sum to d / 2, so rope_apply has one complex
\* frequency per feature pair of a head and is well-defined.
C15_SplitCoversHead ==
    pc = "rope_done" =>
        /\ fn_out.f + fn_out.h + fn_out.w = fn_in.d \div 2
        /\ err = "none"


-----------------------------------------------------------------------------
(* Claims about patchify / unpatchify (checked under SpecPatch) *)

Divisible(latents, patch_size) == \A i \in 1..3 : latents[i] % patch_size[i] = 0

\* C16: for a latent whose extents are divisible by the patch size,
\* unpatchify of a head output of patchify's grid has the extents of the
\* latent: grid f, h, w times the patch size per axis.
C16_UnpatchifyRestoresExtents ==
    (pc = "patch_done" /\ Divisible(fn_in.latents, fn_in.patch_size)) =>
        /\ err = "none"
        /\ fn_out.tokens = fn_out.grid[1] * fn_out.grid[2] * fn_out.grid[3]
        /\ fn_out.shape = fn_in.latents
        /\ \A i \in 1..3 : fn_out.shape[i] = fn_out.grid[i] * fn_in.patch_size[i]

\* a latent of several patches per axis under a patch size whose height and
\* width patches differ
C16_Witness ==
    /\ pc = "patch_done"
    /\ fn_in.patch_size = <<1, 2, 1>>
    /\ fn_in.latents = <<3, 4, 2>>
    /\ fn_out.grid = <<3, 2, 2>>
    /\ fn_out.shape = <<3, 4, 2>>


-----------------------------------------------------------------------------
(* Further claims about the combiner (checked under SpecMoE) *)

\* C17: the combiner's output depends only on the embedding, the expert
\* indices and the expert weights: the same call under any other modality
\* label ends the same way with the same output tensor.
C17_OutputIgnoresLabel ==
    pc = "moe_done" =>
        \A l \in RouterLabels :
            LET r == MultiModalMoE_forward(moe_config, fn_in.x, fn_in.weights,
                                           fn_in.indices, l)
            IN  /\ r.err = fn_out.err
                /\ r.output = fn_out.output


-----------------------------------------------------------------------------
(* Claims about repeated forward calls (checked under SpecCalls) *)

\* the records block i appended during the call that is now over
WrittenThisCall(i) ==
    IF i <= Len(block_log) /\ block_log[i].branch = "A" THEN 1 ELSE 0

\* C21: once a top-level forward call is over (returned or raised), every
\* block's statistics buffer holds only what that call wrote, at most one
\* record: whatever earlier calls left was emptied when the call started.
C21_BufferHoldsLastCallOnly ==
    pc \in {"done", "error"} =>
        \A i \in 1..NumLayers :
            /\ Len(expert_stats_buffer[i].recs) <= WrittenThisCall(i)
            /\ Len(expert_stats_buffer[i].recs) <= 1

-----------------------------------------------------------------------------
(* Claims about the block's projector (checked under SpecBlock) *)

\* C22: a block that is as its constructor left it (nothing attached to it
\* afterwards) has its projector, so no stage of its forward call fails for
\* want of that attribute.
C22_ProjectorFromConstruction ==
    ~trained => err # "AttributeError"

-----------------------------------------------------------------------------
(* Claims about the coarse scales of the assembler (checked under SpecAsm) *)

\* the frame-index list of a coarse scale, and what is left of it once the
\* entries < 0 are removed
ScaleIndexList(seg) ==
    IF seg = "2x" THEN Flatten(args.clean_latent_2x_indices.rows)
    ELSE Flatten(args.clean_latent_4x_indices.rows)
ValidIndexList(seg) == SelectSeq(ScaleIndexList(seg), LAMBDA x : x >= 0)

NoValidIndex(idx) ==
    \/ ~idx.present
    \/ \A b \in 1..Len(idx.rows) : \A i \in 1..Len(idx.rows[b]) : idx.rows[b][i] < 0
SkippedScale(latents, idx) == latents = <<>> \/ NoValidIndex(idx)

\* the call's arguments with every skipped scale left out of the call
WithoutSkipped(a) ==
    LET a1 == IF SkippedScale(a.clean_latents, a.clean_latent_indices)
              THEN [a EXCEPT !.clean_latents = <<>>, !.clean_latent_indices = Absent]
              ELSE a
        a2 == IF SkippedScale(a.clean_latents_2x, a.clean_latent_2x_indices)
              THEN [a1 EXCEPT !.clean_latents_2x = <<>>, !.clean_latent_2x_indices = Absent]
              ELSE a1
    IN  IF SkippedScale(a.clean_latents_4x, a.clean_latent_4x_indices)
        THEN [a2 EXCEPT !.clean_latents_4x = <<>>, !.clean_latent_4x_indices = Absent]
        ELSE a2

\* C24: a scale whose clean latents are absent, or whose frame-index list is
\* absent, empty or without an index >= 0, leaves no trace: tokens, RoPE
\* rows and camera rows are those of the same call made without that scale.
C24_SkippedScaleLeavesNoTrace ==
    Returned =>
        LET r == process_input_hidden_states(WithoutSkipped(args))
        IN  /\ r.err = "none"
            /\ hidden_states = r.hidden
            /\ rope_freqs = r.rope
            /\ combined = r.cam

CeilDiv(n, k) == (n + k - 1) \div k
CeilTokens(shape, k) ==
    CeilDiv(shape[1], k[1]) * CeilDiv(shape[2], k[2]) * CeilDiv(shape[3], k[3])
TokensOf(seg) == Cardinality({i \in 1..Len(hidden_states) : hidden_states[i].seg = seg})

\* C25: every enabled clean-latent scale is padded up to the next multiple
\* of its kernel on each axis, so it contributes
\* ceil(t/kt) * ceil(h/kh) * ceil(w/kw) tokens and the embedding convolution
\* drops no frame, row or column of its input.
C25_ScaleTokensAreCeil ==
    Returned =>
        /\ Enabled1x(args) => TokensOf("1x") = CeilTokens(args.clean_latents, <<1, 2, 2>>)
        /\ Enabled2x(args) => TokensOf("2x") = CeilTokens(args.clean_latents_2x, <<2, 4, 4>>)
        /\ Enabled4x(args) => TokensOf("4x") = CeilTokens(args.clean_latents_4x, <<4, 8, 8>>)

\* the camera frames the primary range and the 1x scale read, as frame index
\* minus start index
PrimaryCameraReads(a) ==
    LET li == LatentIndices(a, patchify(a.latents, a.patch_size)[1])[1]
    IN  (SeqMin(li) - start_indice)..(SeqMax(li) - start_indice)
CleanCameraReads(a) ==
    LET row == a.clean_latent_indices.rows[1]
        cs == SeqMin(row) - start_indice
        ce == SeqMax(row) + 1 - start_indice
    IN  IF cs = ce THEN {cs} ELSE {cs, ce}

\* C28: every camera frame the assembler reads, for the primary range and
\* for the 1x clean frames, has an index in [0, number of camera frames), so
\* no read is negative or out of range; a 2x/4x frame outside that range
\* gets an all-zero row.
C28_CameraReadsInRange ==
    args.cam_emb.present =>
        /\ err # "IndexError"
        /\ pc # "asm_main" =>
              PrimaryCameraReads(args) \subseteq 0..(args.cam_emb.frames - 1)
        /\ (pc \notin {"asm_main", "asm_1x"} /\ Enabled1x(args)) =>
              CleanCameraReads(args) \subseteq 0..(args.cam_emb.frames - 1)
        /\ Returned =>
              \A i \in 1..Len(combined.rows) :
                  combined.rows[i].cam \in -1..(args.cam_emb.frames - 1)

\* the RoPE rows of one scale in the rows of one batch element
ScaleRope(rows, seg) == SelectSeq(rows, LAMBDA x : x.seg = seg)

\* the index tensor idx with the row of every batch element but b replaced
OtherRowsReplaced(idx, b, row) ==
    [idx EXCEPT !.rows = [x \in 1..Len(idx.rows) |-> IF x = b THEN idx.rows[x] ELSE row]]

\* C29: with more than one batch element, the 2x and 4x RoPE time
\* frequencies of element b follow from b's own row of the scale's index
\* list; replacing the row of another element leaves them as they are.
C29_ScaleRopeFromOwnRow ==
    (Returned /\ args.B > 1) =>
        \A b \in 1..args.B :
            /\ args.clean_latent_2x_indices.present =>
                  \A row \in {r \in ScaleRows :
                                Len(r) = Len(args.clean_latent_2x_indices.rows[b])} :
                      LET a2 == [args EXCEPT !.clean_latent_2x_indices =
                                    OtherRowsReplaced(@, b, row)]
                      IN  ScaleRope(process_input_hidden_states(a2).rope[b], "2x")
                              = ScaleRope(rope_freqs[b], "2x")
            /\ args.clean_latent_4x_indices.present =>
                  \A row \in {r \in ScaleRows :
                                Len(r) = Len(args.clean_latent_4x_indices.rows[b])} :
                      LET a4 == [args EXCEPT !.clean_latent_4x_indices =
                                    OtherRowsReplaced(@, b, row)]
                      IN  ScaleRope(process_input_hidden_states(a4).rope[b], "4x")
                              = ScaleRope(rope_freqs[b], "4x")

-----------------------------------------------------------------------------
(* Further claims about the forward pass (checked under Spec) *)

\* C26: whatever the MoE configuration and the modality label, every expert
\* index of the router's decision is smaller than the num_experts of the
\* blocks' combiners, so the combiner's gather stays in range.
C26_RouterIndexBelowNumExperts ==
    (router.present /\ moe_config.present) =>
        \A b \in 1..Len(router.indices) : \A q \in 1..Len(router.indices[b]) :
            \A k \in 1..Len(router.indices[b][q]) :
                router.indices[b][q][k] < moe_config.num_experts

\* C27: the cam_emb the caller passed reaches neither the assembler nor a
\* block.  Line 921 rebinds the name to the output of the last recognized
\* modality processor (or raises) before anything else runs, and everything
\* the forward pass computes afterwards is computed from that output; two
\* calls that differ only in the cam_emb argument end alike.
C27_PassedCamEmbNeverUsed ==
    LET r == process_modality_inputs(modality_inputs)
        seen == [args EXCEPT !.cam_emb = r.processed]
    IN  /\ (pc # "forward" /\ r.ret = "tuple") => args = seen
        /\ (pc # "forward" /\ r.ret # "tuple") =>
              /\ pc = "error" /\ err \in {"TypeError", "UnboundLocalError"}
              /\ hidden_states = <<>> /\ combined = [present |-> FALSE, rows |-> <<>>]
              /\ block_log = <<>> /\ output = NoOutput
        /\ pc \in {"prepare", "router", "blocks", "done"} =>
              /\ r.ret = "tuple"
              /\ combined = process_input_hidden_states(seen).cam
              /\ rope_freqs = process_input_hidden_states(seen).rope

\* a completed call whose caller passed a camera embedding of two frames,
\* while the blocks received the rows of the one-frame processor output
C27_Witness ==
    /\ pc = "done"
    /\ fn_in.cam_emb = Cam(2, "arg")
    /\ args.latents[1] = 2
    /\ args.cam_emb.frames = 1
    /\ combined.present
    /\ Len(combined.rows) = 1
    /\ Len(block_log) = NumLayers

-----------------------------------------------------------------------------
(* Claims about the training step (checked under SpecTrain) *)

\* C30: in every training step the model's input keeps every frame at time
\* index >= target_frames equal to the original clean latent, the frames
\* before it being the noised ones, and the loss compares prediction and
\* target over the frames 0 .. target_frames - 1 and no others.
C30_ConditionCleanLossOnTarget ==
    LET T == Len(fn_in.latents)
        tgt_len == fn_in.target_frames
    IN  /\ pc \in {"train_loss", "train_done"} =>
              /\ Len(fn_out.model_input) = T
              /\ \A f \in 1..T :
                    fn_out.model_input[f] =
                        IF f - 1 >= tgt_len THEN fn_in.latents[f]
                        ELSE [clean |-> fn_in.latents[f].clean, noise |-> fn_in.noise[f]]
        /\ pc = "train_done" =>
              /\ Len(fn_out.loss_pred) = tgt_len
              /\ Len(fn_out.loss_target) = tgt_len
              /\ \A i \in 1..tgt_len :
                    /\ fn_out.loss_pred[i] =
                          [frame |-> i - 1, value |-> fn_out.noise_pred[i]]
                    /\ fn_out.loss_target[i] =
                          [frame |-> i - 1,
                           value |-> [target_of |-> fn_in.latents[i].clean,
                                      noise |-> fn_in.noise[i]]]

\* a finished step on two frames of which the first is the target: the model
\* saw frame 0 noised and frame 1 clean, and the loss has one term
C30_Witness ==
    /\ pc = "train_done"
    /\ Len(fn_in.latents) = 2
    /\ fn_in.target_frames = 1
    /\ fn_out.model_input[1] = [clean |-> fn_in.latents[1].clean, noise |-> fn_in.noise[1]]
    /\ fn_out.model_input[2] = fn_in.latents[2]
    /\ Len(fn_out.loss_pred) = 1

====
